---- MODULE Spec2Model ----
(***************************************************************************)
(* A model of xu::shared_buf (include/shared_buf.hpp): a byte buffer that  *)
(* pairs a std::shared_ptr<uint8_t[]> with a size, its forward iterator    *)
(* iterator_<Val_T>, and the demonstration program test_shared_buf.cpp.    *)
(*                                                                         *)
(* heap    the arrays made by new uint8_t[sz], each with the control block *)
(*         of the std::shared_ptr that owns it                             *)
(* bufs    the shared_buf objects (ptr, sz)                                *)
(* curs    the iterator_ objects (base_ptr, sz, i)                         *)
(* last    what the most recent member call did: its name, the exception   *)
(*         it threw (if any) and the value it returned (if any)            *)
(* stream  the std::ostream written to: its format flags, width, fill and  *)
(*         the characters written so far                                   *)
(* pc, counter   the position of main() and its local int counter         *)
(***************************************************************************)
EXTENDS Integers, Sequences, FiniteSets, TLC

VARIABLES heap, bufs, curs, last, stream, pc, counter

vars == <<heap, bufs, curs, last, stream, pc, counter>>

\* ------------------------------------------------------------------ bounds

\* shared_buf objects the library specification works with
NBuf == 2
\* calls of new uint8_t[sz] in one behaviour of the library specification
MaxAlloc == 2
\* the largest size a buffer is constructed with in the library specification
MaxSize == 1

\* the largest size of the buffer the iterator specification traverses
MaxIterSize == 2
\* iterator_ objects of the iterator specification
NCur == 2
\* the width of size_t in bits, scaled down
IndexBits == 4

\* the largest size of the buffer the print specification prints
MaxPrintSize == 2
\* the field width the stream may have when print() is called
PrintWidth == 3

\* stack frames available to a recursion before the stack overflows
MaxDepth == 3

Bufs == 1..NBuf
Curs == 1..NCur
Allocs == 1..MaxAlloc
\* sizes passed to the constructor
Sizes == 0..MaxSize
\* indices passed to operator[]: inside, at and past the size
Indices == 0..MaxSize
\* byte values written, and found in an array that was never written
Bytes == {0, 255}

\* the null pointer
NULL == 0

\* size_t arithmetic is modulo SizeMod; SIZE_MAX is the largest size_t
SizeMod == 2 ^ IndexBits
SIZE_MAX == SizeMod - 1
\* arguments of operator+=: small steps, and steps that make i + n wrap
Steps == (0..(MaxIterSize + 1)) \cup {SIZE_MAX - k : k \in 0..MaxIterSize}

\* ------------------------------------------------------------- the heap

\* an array that new has not returned yet
NoArray == [st |-> "unused", len |-> 0, bytes |-> <<>>, cnt |-> 0, frees |-> 0]

\* the bytes of an array: a function on 0..len-1
ArrayOf(len, f) == [k \in 0..(len - 1) |-> f[k]]

\* new uint8_t[sz]: the next array, its bytes indeterminate (garbage)
new_array(h, a, len, garbage) ==
  [h EXCEPT ![a] = [st |-> "live", len |-> len, bytes |-> ArrayOf(len, garbage),
                    cnt |-> 0, frees |-> 0]]

\* the array new returns next
NextAlloc == CHOOSE a \in Allocs : heap[a].st = "unused" /\
                                    \A x \in Allocs : x < a => heap[x].st # "unused"

\* delete[] of the array: its storage is gone
delete_array(h, p) ==
  [h EXCEPT ![p] = [st |-> "freed", len |-> 0, bytes |-> <<>>, cnt |-> 0,
                    frees |-> h[p].frees + 1]]

\* a plain pointer copy that forgets to count the new owner
sp_acquire_uncounted(h, p) == h

\* std::shared_ptr taking one more owner of p (copy construction of the pointer)
sp_acquire(h, p) ==
  IF p = NULL THEN h ELSE [h EXCEPT ![p].cnt = @ + 1]

\* a shared_ptr that never deletes what it owned
sp_release_leak(h, p) ==
  IF p = NULL THEN h ELSE [h EXCEPT ![p].cnt = IF @ > 0 THEN @ - 1 ELSE 0]

\* std::shared_ptr dropping one owner of p: the last one deletes the array
sp_release(h, p) ==
  IF p = NULL THEN h
  ELSE IF h[p].cnt <= 1 THEN delete_array(h, p)
  ELSE [h EXCEPT ![p].cnt = @ - 1]

\* ------------------------------------------------------- shared_buf objects

\* a shared_buf variable that is not (or no longer) in scope
NoBuf == [alive |-> FALSE, ptr |-> NULL, sz |-> 0]

\* the result of the last call: its name, the exception thrown ("none" when it
\* returned), the value returned (for operator+= its local next), and for
\* operator+= and operator- of an iterator the size_t operand (n, and the
\* position of other)
NoVal == -1
ResultArg(op, err, val, arg) == [op |-> op, err |-> err, val |-> val, arg |-> arg]
Result(op, err, val) == ResultArg(op, err, val, NoVal)

\* the bounds test of operator[] and of the iterator, written i <= sz
in_range_le(i, sz) == i <= sz

\* i < sz, the test of operator[], operator*, ptr() and operator++
in_range(i, sz) == i < sz

\* whether ptr[i] is an access to an element of a live array
valid_access(p, i) ==
  /\ p # NULL
  /\ heap[p].st = "live"
  /\ i < heap[p].len

\* shared_buf(size_t sz_)
shared_buf(b, sz_, garbage) ==
  /\ ~bufs[b].alive
  /\ \E a \in Allocs : heap[a].st = "unused"
  /\ LET a == NextAlloc
     IN /\ heap' = sp_acquire(new_array(heap, a, sz_, garbage), a)
        /\ bufs' = [bufs EXCEPT ![b] = [alive |-> TRUE, ptr |-> a, sz |-> sz_]]
  /\ last' = Result("shared_buf", "none", NoVal)
  /\ UNCHANGED <<curs, stream>>

\* shared_buf(const shared_buf& other)
shared_buf_copy(b, other) ==
  /\ ~bufs[b].alive
  /\ bufs[other].alive
  /\ heap' = sp_acquire(heap, bufs[other].ptr)
  /\ bufs' = [bufs EXCEPT ![b] = [alive |-> TRUE, ptr |-> bufs[other].ptr,
                                  sz |-> bufs[other].sz]]
  /\ last' = Result("shared_buf_copy", "none", NoVal)
  /\ UNCHANGED <<curs, stream>>

\* a copy assignment that overwrites ptr without dropping what it held
operator_assign_keeps_old(b, other) ==
  /\ bufs[b].alive
  /\ bufs[other].alive
  /\ heap' = sp_acquire(heap, bufs[other].ptr)
  /\ bufs' = [bufs EXCEPT ![b] = [alive |-> TRUE, ptr |-> bufs[other].ptr,
                                  sz |-> bufs[other].sz]]
  /\ last' = Result("operator_assign", "none", NoVal)
  /\ UNCHANGED <<curs, stream>>

\* shared_buf& operator=(const shared_buf& other)
\* ptr = other.ptr is shared_ptr(other.ptr).swap(ptr): the new owner is counted
\* before the old array is dropped
operator_assign(b, other) ==
  /\ bufs[b].alive
  /\ bufs[other].alive
  /\ heap' = sp_release(sp_acquire(heap, bufs[other].ptr), bufs[b].ptr)
  /\ bufs' = [bufs EXCEPT ![b] = [alive |-> TRUE, ptr |-> bufs[other].ptr,
                                  sz |-> bufs[other].sz]]
  /\ last' = Result("operator_assign", "none", NoVal)
  /\ UNCHANGED <<curs, stream>>

\* a move constructor that leaves other.sz as it was
moved_from_keeps_sz(bs, other) == bs

\* other.sz = 0, the last statement of the move constructor and move assignment
moved_from(bs, other) == [bs EXCEPT ![other].sz = 0]

\* a move constructor that empties other without taking its array: the
\* array loses an owner
shared_buf_move_drops(b, other) ==
  /\ ~bufs[b].alive
  /\ bufs[other].alive
  /\ bufs' = [bufs EXCEPT ![b] = [alive |-> TRUE, ptr |-> NULL, sz |-> 0],
                          ![other] = [alive |-> TRUE, ptr |-> NULL, sz |-> 0]]
  /\ heap' = sp_release(heap, bufs[other].ptr)
  /\ last' = Result("shared_buf_move", "none", NoVal)
  /\ UNCHANGED <<curs, stream>>

\* shared_buf(shared_buf&& other)
shared_buf_move(b, other) ==
  /\ ~bufs[b].alive
  /\ bufs[other].alive
  /\ LET b1 == [bufs EXCEPT ![b] = [alive |-> TRUE, ptr |-> bufs[other].ptr,
                                    sz |-> bufs[other].sz],
                            ![other].ptr = NULL]
     IN bufs' = moved_from(b1, other)
  /\ heap' = heap
  /\ last' = Result("shared_buf_move", "none", NoVal)
  /\ UNCHANGED <<curs, stream>>

\* shared_buf& operator=(shared_buf&& other)
\* ptr = std::move(other.ptr) is shared_ptr(std::move(other.ptr)).swap(ptr):
\* a temporary takes other.ptr (other.ptr becomes null), is swapped with ptr,
\* and drops what ptr held; then sz = other.sz; other.sz = 0
operator_assign_move(b, other) ==
  /\ bufs[b].alive
  /\ bufs[other].alive
  /\ LET tmp == bufs[other].ptr
         b1 == [bufs EXCEPT ![other].ptr = NULL]
         old == b1[b].ptr
         b2 == [b1 EXCEPT ![b].ptr = tmp]
         b3 == [b2 EXCEPT ![b].sz = b2[other].sz]
     IN /\ bufs' = moved_from(b3, other)
        /\ heap' = sp_release(heap, old)
  /\ last' = Result("operator_assign_move", "none", NoVal)
  /\ UNCHANGED <<curs, stream>>

\* ~shared_buf(): the implicit destructor destroys ptr
shared_buf_dtor(b) ==
  /\ bufs[b].alive
  /\ heap' = sp_release(heap, bufs[b].ptr)
  /\ bufs' = [bufs EXCEPT ![b] = NoBuf]
  /\ last' = Result("shared_buf_dtor", "none", NoVal)
  /\ UNCHANGED <<curs, stream>>

\* what uint8_t operator[](size_t i) const does: throws, or returns ptr[i]
index_result(b, i) ==
  IF in_range(i, bufs[b].sz)
  THEN IF valid_access(bufs[b].ptr, i)
       THEN Result("operator_index_const", "none", heap[bufs[b].ptr].bytes[i])
       ELSE Result("operator_index_const", "undefined", NoVal)
  ELSE Result("operator_index_const", "out_of_range", NoVal)

\* operator[] that clamps a failing index: it stores v in the last element
\* before it throws
operator_index_write_clamped(b, i, v) ==
  /\ bufs[b].alive
  /\ IF i < bufs[b].sz /\ valid_access(bufs[b].ptr, i)
     THEN /\ heap' = [heap EXCEPT ![bufs[b].ptr].bytes[i] = v]
          /\ last' = Result("operator_index", "none", v)
     ELSE /\ heap' = IF valid_access(bufs[b].ptr, bufs[b].sz - 1)
                     THEN [heap EXCEPT ![bufs[b].ptr].bytes[bufs[b].sz - 1] = v]
                     ELSE heap
          /\ last' = Result("operator_index", "out_of_range", NoVal)
  /\ UNCHANGED <<bufs, curs, stream>>

\* uint8_t& operator[](size_t i), used as buf[i] = v
operator_index_write(b, i, v) ==
  /\ bufs[b].alive
  /\ IF in_range(i, bufs[b].sz)
     THEN IF valid_access(bufs[b].ptr, i)
          THEN /\ heap' = [heap EXCEPT ![bufs[b].ptr].bytes[i] = v]
               /\ last' = Result("operator_index", "none", v)
          ELSE /\ heap' = heap
               /\ last' = Result("operator_index", "undefined", NoVal)
     ELSE /\ heap' = heap
          /\ last' = Result("operator_index", "out_of_range", NoVal)
  /\ UNCHANGED <<bufs, curs, stream>>

\* uint8_t operator[](size_t i) const
operator_index_const(b, i) ==
  /\ bufs[b].alive
  /\ last' = index_result(b, i)
  /\ UNCHANGED <<heap, bufs, curs, stream>>

\* size_t size() const
size(b) ==
  /\ bufs[b].alive
  /\ last' = Result("size", "none", bufs[b].sz)
  /\ UNCHANGED <<heap, bufs, curs, stream>>

\* ------------------------------------------------------ iterator_ objects

\* an iterator_ variable that is not in scope
NoCur == [live |-> FALSE, base_ptr |-> NULL, sz |-> 0, i |-> 0, adv |-> NoVal]

\* the constructor without the clamp if (i > sz) i = sz
iterator_unclamped(base_ptr_, sz_, i_) ==
  [live |-> TRUE, base_ptr |-> base_ptr_, sz |-> sz_, i |-> i_, adv |-> NoVal]

\* iterator_(uint8_t* base_ptr_, size_t sz_, size_t i_ = 0)
\* adv is history, not a member: the number of operator++ calls since begin()
\* made the iterator, NoVal when it was not made by begin() and operator++ alone
iterator_(base_ptr_, sz_, i_) ==
  [live |-> TRUE, base_ptr |-> base_ptr_, sz |-> sz_,
   i |-> IF i_ > sz_ THEN sz_ ELSE i_, adv |-> NoVal]

\* &ptr[0] on a null ptr is undefined: a build either yields a null pointer
\* or aborts on the library's assertion; TRUE stands for the abort
first_element_aborts(b) ==
  IF bufs[b].ptr # NULL THEN {FALSE} ELSE {FALSE, TRUE}

\* begin() returning an iterator that takes a share of the array
begin_owning(c, b) ==
  /\ bufs[b].alive
  /\ curs' = [curs EXCEPT ![c] = [iterator_(bufs[b].ptr, bufs[b].sz, 0) EXCEPT !.adv = 0]]
  /\ last' = Result("begin", "none", NoVal)
  /\ heap' = sp_acquire(heap, bufs[b].ptr)
  /\ UNCHANGED <<bufs, stream>>

\* iterator begin(): iterator(&ptr[0], sz)
begin(c, b) ==
  /\ bufs[b].alive
  /\ \E abort \in first_element_aborts(b) :
       IF abort
       THEN /\ curs' = curs
            /\ last' = Result("begin", "abort", NoVal)
       ELSE /\ curs' = [curs EXCEPT ![c] =
                          [iterator_(bufs[b].ptr, bufs[b].sz, 0) EXCEPT !.adv = 0]]
            /\ last' = Result("begin", "none", NoVal)
  /\ UNCHANGED <<heap, bufs, stream>>

\* iterator end(): iterator(&ptr[0], sz, sz)
end(c, b) ==
  /\ bufs[b].alive
  /\ \E abort \in first_element_aborts(b) :
       IF abort
       THEN /\ curs' = curs
            /\ last' = Result("end", "abort", NoVal)
       ELSE /\ curs' = [curs EXCEPT ![c] = iterator_(bufs[b].ptr, bufs[b].sz, bufs[b].sz)]
            /\ last' = Result("end", "none", NoVal)
  /\ UNCHANGED <<heap, bufs, stream>>

\* the iterator end() returns on b, when ptr is not null
end_of(b) == iterator_(bufs[b].ptr, bufs[b].sz, bufs[b].sz)

\* iterator_(const iterator_& other) and operator=(const iterator_& other)
iterator_copy(c, other) ==
  /\ curs[other].live
  /\ curs' = [curs EXCEPT ![c] = curs[other]]
  /\ last' = Result("iterator_copy", "none", NoVal)
  /\ UNCHANGED <<heap, bufs, stream>>

\* operator++ without the test i < sz
incremented_unchecked(x) ==
  [x EXCEPT !.i = (x.i + 1) % SizeMod,
            !.adv = IF x.adv = NoVal THEN NoVal ELSE x.adv + 1]

\* operator++ of an iterator x: i++ when i < sz
incremented(x) ==
  [x EXCEPT !.i = IF in_range(x.i, x.sz) THEN (x.i + 1) % SizeMod ELSE x.i,
            !.adv = IF x.adv = NoVal THEN NoVal ELSE x.adv + 1]

\* iterator_& operator++()
operator_inc(c) ==
  /\ curs[c].live
  /\ curs' = [curs EXCEPT ![c] = incremented(curs[c])]
  /\ last' = Result("operator_inc", "none", NoVal)
  /\ UNCHANGED <<heap, bufs, stream>>

\* iterator_ operator++(int), its result stored in d: res = *this; operator++();
\* return res
operator_post_inc(c, d) ==
  /\ curs[c].live
  /\ LET res == curs[c]
         c1 == [curs EXCEPT ![c] = incremented(curs[c])]
     IN curs' = [c1 EXCEPT ![d] = res]
  /\ last' = Result("operator_post_inc", "none", NoVal)
  /\ UNCHANGED <<heap, bufs, stream>>

\* operator+= without the test next < i
plus_assigned_no_wrap_test(x, n) ==
  LET next == (x.i + n) % SizeMod
  IN [x EXCEPT !.i = IF next > x.sz THEN x.sz ELSE next, !.adv = NoVal]

\* operator+=(size_t n) of an iterator x: next = i + n in size_t arithmetic
plus_assigned(x, n) ==
  LET next == (x.i + n) % SizeMod
  IN [x EXCEPT !.i = IF next < x.i \/ next > x.sz THEN x.sz ELSE next,
               !.adv = NoVal]

\* iterator_& operator+=(size_t n)
operator_plus_assign(c, n) ==
  /\ curs[c].live
  /\ curs' = [curs EXCEPT ![c] = plus_assigned(curs[c], n)]
  /\ last' = ResultArg("operator_plus_assign", "none", (curs[c].i + n) % SizeMod, n)
  /\ UNCHANGED <<heap, bufs, stream>>

\* operator== that compares base_ptr and i only
iterator_eq_ignores_sz(x, other) ==
  x.base_ptr = other.base_ptr /\ x.i = other.i

\* bool operator==(const iterator_& other) const
iterator_eq(x, other) ==
  x.base_ptr = other.base_ptr /\ x.sz = other.sz /\ x.i = other.i

\* bool operator!=(const iterator_& other) const
iterator_ne(x, other) ==
  x.base_ptr # other.base_ptr \/ x.sz # other.sz \/ x.i # other.i

\* what Val_T& operator*() const does, read as a value: throws, or base_ptr[i]
deref_result(x, op) ==
  IF in_range(x.i, x.sz)
  THEN IF valid_access(x.base_ptr, x.i)
       THEN Result(op, "none", heap[x.base_ptr].bytes[x.i])
       ELSE Result(op, "undefined", NoVal)
  ELSE Result(op, "out_of_range", NoVal)

\* Val_T& operator*() const, read: v = *it
operator_deref(c) ==
  /\ curs[c].live
  /\ last' = deref_result(curs[c], "operator_deref")
  /\ UNCHANGED <<heap, bufs, curs, stream>>

\* Val_T& operator*() const, written through: *it = v
operator_deref_write(c, v) ==
  /\ curs[c].live
  /\ IF in_range(curs[c].i, curs[c].sz)
     THEN IF valid_access(curs[c].base_ptr, curs[c].i)
          THEN /\ heap' = [heap EXCEPT ![curs[c].base_ptr].bytes[curs[c].i] = v]
               /\ last' = Result("operator_deref_write", "none", v)
          ELSE /\ heap' = heap
               /\ last' = Result("operator_deref_write", "undefined", NoVal)
     ELSE /\ heap' = heap
          /\ last' = Result("operator_deref_write", "out_of_range", NoVal)
  /\ UNCHANGED <<bufs, curs, stream>>

\* Val_T* ptr() const: base_ptr + i, read through
iterator_ptr(c) ==
  /\ curs[c].live
  /\ last' = deref_result(curs[c], "ptr")
  /\ UNCHANGED <<heap, bufs, curs, stream>>

\* operator- without the test other.i > i
minus_result_unchecked(x, other) == (x.i - other.i) % SizeMod

\* size_t operator-(const iterator_& other) const
minus_result(x, other) ==
  IF other.i > x.i THEN 0 ELSE (x.i - other.i) % SizeMod

operator_minus(c, other) ==
  /\ curs[c].live
  /\ curs[other].live
  /\ last' = ResultArg("operator_minus", "none", minus_result(curs[c], curs[other]),
                       curs[other].i)
  /\ UNCHANGED <<heap, bufs, curs, stream>>

\* iterator_(base_ptr_, sz_, i_) called directly: the constructor is public
iterator_construct(c, base_ptr_, sz_, i_) ==
  /\ curs' = [curs EXCEPT ![c] = iterator_(base_ptr_, sz_, i_)]
  /\ last' = Result("iterator_", "none", NoVal)
  /\ UNCHANGED <<heap, bufs, stream>>

\* operator iterator_<const Val_T>() const, its result stored in c:
\* iterator_<const Val_T>(base_ptr, sz, i). Whether the element type is const
\* is a matter of the type checker and has no member of its own.
iterator_const_convert(c, other) ==
  /\ curs[other].live
  /\ curs' = [curs EXCEPT ![c] =
                 iterator_(curs[other].base_ptr, curs[other].sz, curs[other].i)]
  /\ last' = Result("operator_const_iterator", "none", NoVal)
  /\ UNCHANGED <<heap, bufs, stream>>

\* c == other, the bool returned as 1 or 0
operator_eq(c, other) ==
  /\ curs[c].live
  /\ curs[other].live
  /\ last' = Result("operator_eq", "none",
                    IF iterator_eq(curs[c], curs[other]) THEN 1 ELSE 0)
  /\ UNCHANGED <<heap, bufs, curs, stream>>

\* c != other, the bool returned as 1 or 0
operator_ne(c, other) ==
  /\ curs[c].live
  /\ curs[other].live
  /\ last' = Result("operator_ne", "none",
                    IF iterator_ne(curs[c], curs[other]) THEN 1 ELSE 0)
  /\ UNCHANGED <<heap, bufs, curs, stream>>

\* ~iterator_(): implicit, it has nothing to release
iterator_dtor(c) ==
  /\ curs[c].live
  /\ curs' = [curs EXCEPT ![c] = NoCur]
  /\ last' = Result("iterator_dtor", "none", NoVal)
  /\ UNCHANGED <<heap, bufs, stream>>

\* ------------------------------------------------------------ the stream

\* std::cout as main() finds it: dec | skipws, width 0, fill ' '
cout == [flags |-> {"dec", "skipws"}, width |-> 0, fill |-> " ", out |-> <<>>]

HexDigits == <<"0", "1", "2", "3", "4", "5", "6", "7", "8", "9",
               "a", "b", "c", "d", "e", "f">>
HexDigitsUpper == <<"0", "1", "2", "3", "4", "5", "6", "7", "8", "9",
                    "A", "B", "C", "D", "E", "F">>

\* the digits of n >= 0 in the base, most significant first, no leading zeros
RECURSIVE digits(_, _, _)
digits(n, base, table) ==
  IF n < base THEN <<table[n + 1]>>
  ELSE digits(n \div base, base, table) \o <<table[(n % base) + 1]>>

\* what num_put writes for the int n >= 0 under the flags
int_text(flags, n) ==
  IF "hex" \in flags /\ "dec" \notin flags /\ "oct" \notin flags
  THEN (IF "showbase" \in flags /\ n # 0
        THEN (IF "uppercase" \in flags THEN <<"0", "X">> ELSE <<"0", "x">>)
        ELSE <<>>)
       \o digits(n, 16, IF "uppercase" \in flags THEN HexDigitsUpper ELSE HexDigits)
  ELSE IF "oct" \in flags /\ "dec" \notin flags /\ "hex" \notin flags
  THEN (IF "showbase" \in flags /\ n # 0 THEN <<"0">> ELSE <<>>)
       \o digits(n, 8, HexDigits)
  ELSE (IF "showpos" \in flags THEN <<"+">> ELSE <<>>) \o digits(n, 10, HexDigits)

\* a formatted insertion of text: padded with fill to width, then width(0)
inserted(st, text) ==
  LET n == IF st.width > Len(text) THEN st.width - Len(text) ELSE 0
      pad == [k \in 1..n |-> st.fill]
  IN [st EXCEPT !.out = @ \o (IF "left" \in st.flags THEN text \o pad ELSE pad \o text),
                !.width = 0]

\* stream << (int)ptr[i] << 'h', preceded by ',' when i != 0
RECURSIVE print_elements(_, _, _, _)
print_elements(st, p, sz, i) ==
  IF i >= sz THEN st
  ELSE LET s1 == IF i # 0 THEN inserted(st, <<",">>) ELSE st
           s2 == IF valid_access(p, i)
                 THEN inserted(s1, int_text(s1.flags, heap[p].bytes[i]))
                 ELSE inserted(s1, <<"?">>)
       IN print_elements(inserted(s2, <<"h">>), p, sz, i + 1)

\* print() that sets std::hex without resetiosflags(orig_stream_flags)
print_result_keeps_flags(st, b) ==
  LET orig_stream_flags == st.flags
      s2 == inserted(st, <<"[">>)
      s3 == [s2 EXCEPT !.flags = (@ \ {"dec", "oct", "hex"}) \cup {"hex"}]
      s4 == print_elements(s3, bufs[b].ptr, bufs[b].sz, 0)
      s5 == inserted(s4, <<"]">>)
  IN [s5 EXCEPT !.flags = orig_stream_flags]

\* print() without stream.flags(orig_stream_flags) at its end
print_result_leaves_hex(st, b) ==
  LET orig_stream_flags == st.flags
      s1 == [st EXCEPT !.flags = @ \ orig_stream_flags]
      s2 == inserted(s1, <<"[">>)
      s3 == [s2 EXCEPT !.flags = (@ \ {"dec", "oct", "hex"}) \cup {"hex"}]
      s4 == print_elements(s3, bufs[b].ptr, bufs[b].sz, 0)
  IN inserted(s4, <<"]">>)

\* std::ostream& print(std::ostream& stream) const
print_result(st, b) ==
  LET orig_stream_flags == st.flags
      s1 == [st EXCEPT !.flags = @ \ orig_stream_flags]
      s2 == inserted(s1, <<"[">>)
      s3 == [s2 EXCEPT !.flags = (@ \ {"dec", "oct", "hex"}) \cup {"hex"}]
      s4 == print_elements(s3, bufs[b].ptr, bufs[b].sz, 0)
      s5 == inserted(s4, <<"]">>)
  IN [s5 EXCEPT !.flags = orig_stream_flags]

\* stream << buf
print(b) ==
  /\ bufs[b].alive
  /\ stream' = print_result(stream, b)
  /\ last' = Result("print", "none", NoVal)
  /\ UNCHANGED <<heap, bufs, curs>>

\* ------------------------------------------------ the library specification

Init ==
  /\ heap = [a \in Allocs |-> NoArray]
  /\ bufs = [b \in Bufs |-> NoBuf]
  /\ curs = [c \in Curs |-> NoCur]
  /\ stream = cout
  /\ last = Result("none", "none", NoVal)
  /\ pc = "lib"
  /\ counter = 0

Construct ==
  \E b \in Bufs, n \in Sizes, g \in [0..(MaxSize - 1) -> Bytes] :
    shared_buf(b, n, g) /\ UNCHANGED <<pc, counter>>

CopyConstruct ==
  \E b \in Bufs, other \in Bufs : shared_buf_copy(b, other) /\ UNCHANGED <<pc, counter>>

CopyAssign ==
  \E b \in Bufs, other \in Bufs : operator_assign(b, other) /\ UNCHANGED <<pc, counter>>

MoveConstruct ==
  \E b \in Bufs, other \in Bufs : shared_buf_move(b, other) /\ UNCHANGED <<pc, counter>>

MoveAssign ==
  \E b \in Bufs, other \in Bufs : operator_assign_move(b, other) /\ UNCHANGED <<pc, counter>>

Destroy ==
  \E b \in Bufs : shared_buf_dtor(b) /\ UNCHANGED <<pc, counter>>

IndexWrite ==
  \E b \in Bufs, i \in Indices, v \in Bytes :
    operator_index_write(b, i, v) /\ UNCHANGED <<pc, counter>>

IndexRead ==
  \E b \in Bufs, i \in Indices : operator_index_const(b, i) /\ UNCHANGED <<pc, counter>>

Size ==
  \E b \in Bufs : size(b) /\ UNCHANGED <<pc, counter>>

Next ==
  \/ Construct
  \/ CopyConstruct
  \/ CopyAssign
  \/ MoveConstruct
  \/ MoveAssign
  \/ Destroy
  \/ IndexWrite
  \/ IndexRead
  \/ Size

Spec == Init /\ [][Next]_vars

\* ----------------------------------------------- the iterator specification

\* the state after shared_buf buf(n): one buffer of any size up to MaxIterSize,
\* its bytes indeterminate, and no iterator yet
InitIter ==
  /\ \E n \in 0..MaxIterSize, g \in [0..(MaxIterSize - 1) -> Bytes] :
       /\ heap = sp_acquire(new_array([a \in Allocs |-> NoArray], 1, n, g), 1)
       /\ bufs = [b \in Bufs |-> IF b = 1 THEN [alive |-> TRUE, ptr |-> 1, sz |-> n]
                                 ELSE NoBuf]
  /\ curs = [c \in Curs |-> NoCur]
  /\ last = Result("shared_buf", "none", NoVal)
  /\ stream = cout
  /\ pc = "lib"
  /\ counter = 0

\* the program goes on unless the library's assertion has aborted it
Running == last.err # "abort"

Begin ==
  \E c \in Curs, b \in Bufs : Running /\ begin(c, b) /\ UNCHANGED <<pc, counter>>

End ==
  \E c \in Curs, b \in Bufs : Running /\ end(c, b) /\ UNCHANGED <<pc, counter>>

IterCopy ==
  \E c \in Curs, other \in Curs :
    Running /\ iterator_copy(c, other) /\ UNCHANGED <<pc, counter>>

\* the bound on the history counter adv of the iterator specification
MaxAdvance == MaxIterSize + 2
CanCount(c) == curs[c].adv < MaxAdvance

PreIncrement ==
  \E c \in Curs :
    Running /\ CanCount(c) /\ operator_inc(c) /\ UNCHANGED <<pc, counter>>

PostIncrement ==
  \E c \in Curs, d \in Curs :
    Running /\ CanCount(c) /\ operator_post_inc(c, d) /\ UNCHANGED <<pc, counter>>

PlusAssign ==
  \E c \in Curs, n \in Steps :
    Running /\ operator_plus_assign(c, n) /\ UNCHANGED <<pc, counter>>

Deref ==
  \E c \in Curs : Running /\ operator_deref(c) /\ UNCHANGED <<pc, counter>>

DerefWrite ==
  \E c \in Curs, v \in Bytes :
    Running /\ operator_deref_write(c, v) /\ UNCHANGED <<pc, counter>>

Ptr ==
  \E c \in Curs : Running /\ iterator_ptr(c) /\ UNCHANGED <<pc, counter>>

Minus ==
  \E c \in Curs, other \in Curs :
    Running /\ operator_minus(c, other) /\ UNCHANGED <<pc, counter>>

DestroyBuf ==
  \E b \in Bufs : Running /\ shared_buf_dtor(b) /\ UNCHANGED <<pc, counter>>

NextIter ==
  \/ Begin
  \/ End
  \/ IterCopy
  \/ PreIncrement
  \/ PostIncrement
  \/ PlusAssign
  \/ Deref
  \/ DerefWrite
  \/ Ptr
  \/ Minus
  \/ DestroyBuf

SpecIter == InitIter /\ [][NextIter]_vars

\* ------------------------------------------------- the cursor specification

\* the state after shared_buf a(n); shared_buf b(a): two buffers that share
\* one array, and no iterator yet
InitCur ==
  /\ \E n \in 0..MaxIterSize :
       /\ heap = sp_acquire(sp_acquire(
                    new_array([a \in Allocs |-> NoArray], 1, n, [k \in 0..(MaxIterSize - 1) |-> 0]),
                    1), 1)
       /\ bufs = [b \in Bufs |-> IF b \in {1, 2} THEN [alive |-> TRUE, ptr |-> 1, sz |-> n]
                                 ELSE NoBuf]
  /\ curs = [c \in Curs |-> NoCur]
  /\ last = Result("shared_buf_copy", "none", NoVal)
  /\ stream = cout
  /\ pc = "lib"
  /\ counter = 0

\* pointers a caller can pass to the constructor: null, or an array
CurBases == {NULL, 1}
\* the iterators of this specification: the operands of a binary operator
CurPair == {1, 2}
\* initial indices passed to the constructor: inside, at and past sz_
CurIndices == (0..(MaxIterSize + 1)) \cup {SIZE_MAX}

CurBegin ==
  \E c \in CurPair, b \in Bufs : begin(c, b) /\ UNCHANGED <<pc, counter>>

CurEnd ==
  \E c \in CurPair, b \in Bufs : end(c, b) /\ UNCHANGED <<pc, counter>>

CurConstruct ==
  \E c \in CurPair, p \in CurBases, n \in 0..MaxIterSize, i \in CurIndices :
    iterator_construct(c, p, n, i) /\ UNCHANGED <<pc, counter>>

CurCopy ==
  \E c \in CurPair, other \in CurPair : iterator_copy(c, other) /\ UNCHANGED <<pc, counter>>

CurConstConvert ==
  \E c \in CurPair, other \in CurPair :
    iterator_const_convert(c, other) /\ UNCHANGED <<pc, counter>>

CurPreIncrement ==
  \E c \in CurPair : CanCount(c) /\ operator_inc(c) /\ UNCHANGED <<pc, counter>>

CurPostIncrement ==
  \E c \in CurPair, d \in CurPair :
    CanCount(c) /\ operator_post_inc(c, d) /\ UNCHANGED <<pc, counter>>

CurPlusAssign ==
  \E c \in CurPair, n \in Steps : operator_plus_assign(c, n) /\ UNCHANGED <<pc, counter>>

CurEq ==
  \E c \in CurPair, other \in CurPair : operator_eq(c, other) /\ UNCHANGED <<pc, counter>>

CurNe ==
  \E c \in CurPair, other \in CurPair : operator_ne(c, other) /\ UNCHANGED <<pc, counter>>

NextCur ==
  \/ CurBegin
  \/ CurEnd
  \/ CurConstruct
  \/ CurCopy
  \/ CurConstConvert
  \/ CurPreIncrement
  \/ CurPostIncrement
  \/ CurPlusAssign
  \/ CurEq
  \/ CurNe

SpecCur == InitCur /\ [][NextCur]_vars

\* --------------------------------------- iterators that outlive a buffer

\* From the state of two buffers sharing one array: iterators are made,
\* copied, converted, advanced, dereferenced and destroyed while the buffers
\* are destroyed.
OwnDestroyBuf ==
  \E b \in Bufs : shared_buf_dtor(b) /\ UNCHANGED <<pc, counter>>

OwnDeref ==
  \E c \in CurPair : operator_deref(c) /\ UNCHANGED <<pc, counter>>

OwnIterDestroy ==
  \E c \in CurPair : iterator_dtor(c) /\ UNCHANGED <<pc, counter>>

NextOwn ==
  \/ CurBegin
  \/ CurEnd
  \/ CurCopy
  \/ CurConstConvert
  \/ CurPreIncrement
  \/ CurPostIncrement
  \/ CurPlusAssign
  \/ OwnDeref
  \/ OwnIterDestroy
  \/ OwnDestroyBuf

\* the two buffers of the initial state hold indeterminate bytes
InitOwn ==
  /\ \E n \in 0..MaxIterSize, g \in [0..(MaxIterSize - 1) -> Bytes] :
       /\ heap = sp_acquire(sp_acquire(
                    new_array([a \in Allocs |-> NoArray], 1, n, g), 1), 1)
       /\ bufs = [b \in Bufs |-> IF b \in {1, 2} THEN [alive |-> TRUE, ptr |-> 1, sz |-> n]
                                 ELSE NoBuf]
  /\ curs = [c \in Curs |-> NoCur]
  /\ last = Result("shared_buf_copy", "none", NoVal)
  /\ stream = cout
  /\ pc = "lib"
  /\ counter = 0

SpecOwn == InitOwn /\ [][NextOwn]_vars

\* ------------------------------------- buffers and an iterator over them

\* the state after shared_buf buf(n): one buffer, its bytes indeterminate
InitView ==
  /\ \E n \in 0..MaxIterSize, g \in [0..(MaxIterSize - 1) -> Bytes] :
       /\ heap = sp_acquire(new_array([a \in Allocs |-> NoArray], 1, n, g), 1)
       /\ bufs = [b \in Bufs |-> IF b = 1 THEN [alive |-> TRUE, ptr |-> 1, sz |-> n]
                                 ELSE NoBuf]
  /\ curs = [c \in Curs |-> NoCur]
  /\ last = Result("shared_buf", "none", NoVal)
  /\ stream = cout
  /\ pc = "lib"
  /\ counter = 0

\* the iterator of this specification
ViewCur == 1
\* indices passed to operator[]: inside, at and past the size
ViewIndices == 0..MaxIterSize

ViewCopyConstruct ==
  \E b \in Bufs, other \in Bufs :
    Running /\ shared_buf_copy(b, other) /\ UNCHANGED <<pc, counter>>

ViewCopyAssign ==
  \E b \in Bufs, other \in Bufs :
    Running /\ operator_assign(b, other) /\ UNCHANGED <<pc, counter>>

ViewMoveConstruct ==
  \E b \in Bufs, other \in Bufs :
    Running /\ shared_buf_move(b, other) /\ UNCHANGED <<pc, counter>>

ViewMoveAssign ==
  \E b \in Bufs, other \in Bufs :
    Running /\ operator_assign_move(b, other) /\ UNCHANGED <<pc, counter>>

ViewDestroy ==
  \E b \in Bufs : Running /\ shared_buf_dtor(b) /\ UNCHANGED <<pc, counter>>

ViewIndexRead ==
  \E b \in Bufs, i \in ViewIndices :
    Running /\ operator_index_const(b, i) /\ UNCHANGED <<pc, counter>>

ViewIndexWrite ==
  \E b \in Bufs, i \in ViewIndices, v \in Bytes :
    Running /\ operator_index_write(b, i, v) /\ UNCHANGED <<pc, counter>>

ViewBegin ==
  \E b \in Bufs : Running /\ begin(ViewCur, b) /\ UNCHANGED <<pc, counter>>

ViewEnd ==
  \E b \in Bufs : Running /\ end(ViewCur, b) /\ UNCHANGED <<pc, counter>>

ViewIncrement ==
  Running /\ CanCount(ViewCur) /\ operator_inc(ViewCur) /\ UNCHANGED <<pc, counter>>

ViewDeref ==
  Running /\ operator_deref(ViewCur) /\ UNCHANGED <<pc, counter>>

ViewDerefWrite ==
  \E v \in Bytes :
    Running /\ operator_deref_write(ViewCur, v) /\ UNCHANGED <<pc, counter>>

NextView ==
  \/ ViewCopyConstruct
  \/ ViewCopyAssign
  \/ ViewMoveConstruct
  \/ ViewMoveAssign
  \/ ViewDestroy
  \/ ViewIndexRead
  \/ ViewIndexWrite
  \/ ViewBegin
  \/ ViewEnd
  \/ ViewIncrement
  \/ ViewDeref
  \/ ViewDerefWrite

SpecView == InitView /\ [][NextView]_vars

\* ------------------------------------------------- the print specification

\* the format flags a caller may have set on the stream
PrintFlags == {"dec", "hex", "oct", "uppercase", "showbase", "showpos", "left"}
\* byte values with one and two hexadecimal digits, with and without letters
PrintBytes == {0, 10, 16, 255}
PrintFills == {" ", "*"}

\* a buffer of any size up to MaxPrintSize holding any of the bytes, and a
\* stream in any formatting state, nothing written to it yet
InitPrint ==
  /\ \E n \in 0..MaxPrintSize, g \in [0..(MaxPrintSize - 1) -> PrintBytes] :
       /\ heap = sp_acquire(new_array([a \in Allocs |-> NoArray], 1, n, g), 1)
       /\ bufs = [b \in Bufs |-> IF b = 1 THEN [alive |-> TRUE, ptr |-> 1, sz |-> n]
                                 ELSE NoBuf]
  /\ \E f \in SUBSET PrintFlags, w \in {0, PrintWidth}, c \in PrintFills :
       stream = [flags |-> f, width |-> w, fill |-> c, out |-> <<>>]
  /\ curs = [c \in Curs |-> NoCur]
  /\ last = Result("shared_buf", "none", NoVal)
  /\ pc = "lib"
  /\ counter = 0

\* stream << buf, once
PrintOnce ==
  /\ stream.out = <<>>
  /\ print(1)
  /\ UNCHANGED <<pc, counter>>

NextPrint == PrintOnce

SpecPrint == InitPrint /\ [][NextPrint]_vars

\* ----------------------------------- operator[] const in the three revisions

\* the revisions of shared_buf in the repository: include/shared_buf.hpp and
\* the two earlier ones; pc holds the revision the program was built from
Revisions == {"shared_buf.hpp", "part_000", "part_001"}

\* the body of uint8_t operator[](size_t i) const:
\* shared_buf.hpp tests i < sz and returns ptr[i] or throws;
\* part_000 and part_001 are "return operator[](i);", which on a const object
\* resolves to the const overload again: the function calls itself
const_index_body(rev) ==
  CASE rev = "shared_buf.hpp" -> "test"
    [] rev = "part_000" -> "self_call"
    [] rev = "part_001" -> "self_call"

\* the buffer the calls are made on
RevBuf == 1

InitRev ==
  /\ \E n \in 0..MaxIterSize, g \in [0..(MaxIterSize - 1) -> Bytes] :
       /\ heap = sp_acquire(new_array([a \in Allocs |-> NoArray], 1, n, g), 1)
       /\ bufs = [b \in Bufs |-> IF b = RevBuf THEN [alive |-> TRUE, ptr |-> 1, sz |-> n]
                                 ELSE NoBuf]
  /\ curs = [c \in Curs |-> NoCur]
  /\ last = Result("shared_buf", "none", NoVal)
  /\ stream = cout
  /\ pc \in Revisions
  /\ counter = 0

\* whether a call of operator[] const is in progress; counter is the number
\* of its frames on the stack, last.arg the index i
InConstIndex == last.op = "operator_index_const" /\ last.err = "running"

\* c[i] on a const shared_buf: the call is entered
RevCall ==
  /\ ~InConstIndex
  /\ last.err # "stack_overflow"
  /\ \E i \in ViewIndices :
       last' = ResultArg("operator_index_const", "running", NoVal, i)
  /\ counter' = 1
  /\ UNCHANGED <<heap, bufs, curs, stream, pc>>

\* the body of the innermost frame runs: it returns or throws through all
\* frames, or calls itself; the recursion is unbounded, so the build either
\* pushes a frame until the stack overflows, or (the call turned into a jump)
\* loops in place
RevBody ==
  /\ InConstIndex
  /\ IF const_index_body(pc) = "test"
     THEN /\ last' = [index_result(RevBuf, last.arg) EXCEPT !.arg = last.arg]
          /\ counter' = 0
     ELSE \/ /\ counter < MaxDepth
             /\ counter' = counter + 1
             /\ last' = last
          \/ /\ counter = MaxDepth
             /\ counter' = counter
             /\ last' = ResultArg("operator_index_const", "stack_overflow", NoVal, last.arg)
          \/ /\ counter' = counter
             /\ last' = last
  /\ UNCHANGED <<heap, bufs, curs, stream, pc>>

\* buf[i] read through the mutable overload, the same in all revisions
RevIndexMutable ==
  /\ ~InConstIndex
  /\ last.err # "stack_overflow"
  /\ \E i \in ViewIndices :
       last' = [index_result(RevBuf, i) EXCEPT !.op = "operator_index", !.arg = i]
  /\ UNCHANGED <<heap, bufs, curs, stream, pc, counter>>

NextRev ==
  \/ RevCall
  \/ RevBody
  \/ RevIndexMutable

\* a call that was entered runs
SpecRev == InitRev /\ [][NextRev]_vars /\ WF_vars(RevBody)

\* ---------------------------------- operator+= against repeated operator++

\* the program  iterator c(p, sz, i); iterator d = c; d += n; d - c;
\* then ++c, n times.  pc is the statement reached and the local n; counter
\* is the number of ++c done
BulkC == 1
BulkD == 2

BulkAt(at, n) == [at |-> at, n |-> n]

InitBulk ==
  /\ \E n \in 0..MaxIterSize :
       /\ heap = sp_acquire(
                    new_array([a \in Allocs |-> NoArray], 1, n, [k \in 0..(MaxIterSize - 1) |-> 0]),
                    1)
       /\ bufs = [b \in Bufs |-> IF b = 1 THEN [alive |-> TRUE, ptr |-> 1, sz |-> n]
                                 ELSE NoBuf]
  /\ curs = [c \in Curs |-> NoCur]
  /\ last = Result("shared_buf", "none", NoVal)
  /\ stream = cout
  /\ pc = BulkAt("start", 0)
  /\ counter = 0

\* iterator c(&buf[0], buf.size(), i)
BulkConstruct ==
  /\ pc.at = "start"
  /\ \E i \in CurIndices : iterator_construct(BulkC, bufs[1].ptr, bufs[1].sz, i)
  /\ pc' = BulkAt("made", 0)
  /\ UNCHANGED counter

\* iterator d = c
BulkCopy ==
  /\ pc.at = "made"
  /\ iterator_copy(BulkD, BulkC)
  /\ pc' = BulkAt("copied", 0)
  /\ UNCHANGED counter

\* d += n
BulkPlusAssign ==
  /\ pc.at = "copied"
  /\ \E n \in Steps :
       /\ operator_plus_assign(BulkD, n)
       /\ pc' = BulkAt("advanced", n)
  /\ UNCHANGED counter

\* d - c
BulkMinus ==
  /\ pc.at = "advanced"
  /\ operator_minus(BulkD, BulkC)
  /\ pc' = BulkAt("measured", pc.n)
  /\ UNCHANGED counter

\* ++c, while fewer than n were done
BulkIncrement ==
  /\ pc.at = "measured"
  /\ counter < pc.n
  /\ operator_inc(BulkC)
  /\ counter' = counter + 1
  /\ UNCHANGED pc

NextBulk ==
  \/ BulkConstruct
  \/ BulkCopy
  \/ BulkPlusAssign
  \/ BulkMinus
  \/ BulkIncrement

SpecBulk == InitBulk /\ [][NextBulk]_vars

\* ------------------------------------------------- main() of the test program

\* the shared_buf variables of main() and the iterators of its range-for
MainBufs == {"buf", "buf_copy", "buf_moved"}
MainCurs == {"__begin", "__end"}
\* xu::shared_buf buf(10)
MainSize == 10
\* buf_copy[2] = 0
MainIndex == 2
MainValue == 0
\* what the new array may hold before the loop fills it
MainGarbage == [0..(MainSize - 1) -> Bytes]

InitMain ==
  /\ heap = [a \in Allocs |-> NoArray]
  /\ bufs = [b \in MainBufs |-> NoBuf]
  /\ curs = [c \in MainCurs |-> NoCur]
  /\ last = Result("none", "none", NoVal)
  /\ stream = cout
  /\ pc = "L30"
  /\ counter = 0

\* xu::shared_buf buf(10);
Main_construct ==
  /\ pc = "L30"
  /\ \E g \in MainGarbage : shared_buf("buf", MainSize, g)
  /\ pc' = "L33_begin"
  /\ UNCHANGED counter

\* for (auto& b : buf): auto __begin = buf.begin()
Main_begin ==
  /\ pc = "L33_begin"
  /\ begin("__begin", "buf")
  /\ pc' = "L33_end"
  /\ UNCHANGED counter

\* for (auto& b : buf): auto __end = buf.end()
Main_end ==
  /\ pc = "L33_end"
  /\ end("__end", "buf")
  /\ pc' = "L33_test"
  /\ UNCHANGED counter

\* for (auto& b : buf): __begin != __end
Main_test ==
  /\ pc = "L33_test"
  /\ pc' = IF iterator_ne(curs["__begin"], curs["__end"]) THEN "L35" ELSE "L38"
  /\ last' = Result("operator_ne", "none",
                    IF iterator_ne(curs["__begin"], curs["__end"]) THEN 1 ELSE 0)
  /\ UNCHANGED <<heap, bufs, curs, stream, counter>>

\* auto& b = *__begin; b = ++counter;  (int to uint8_t)
Main_fill ==
  /\ pc = "L35"
  /\ counter' = counter + 1
  /\ operator_deref_write("__begin", (counter + 1) % 256)
  /\ pc' = "L33_inc"

\* for (auto& b : buf): ++__begin
Main_inc ==
  /\ pc = "L33_inc"
  /\ operator_inc("__begin")
  /\ pc' = "L33_test"
  /\ UNCHANGED counter

\* std::cout << "buf="
Main_prefix ==
  /\ pc \in {"L46", "L47", "L48"}
  /\ stream' = inserted(stream, <<"b", "u", "f", "=">>)
  /\ pc' = CASE pc = "L46" -> "L46_print"
             [] pc = "L47" -> "L47_print"
             [] pc = "L48" -> "L48_print"
  /\ UNCHANGED <<heap, bufs, curs, last, counter>>

\* << buf, << buf_copy, << buf_moved
Main_print ==
  /\ pc \in {"L38", "L46_print", "L47_print", "L48_print"}
  /\ print(CASE pc = "L38" -> "buf"
             [] pc = "L46_print" -> "buf"
             [] pc = "L47_print" -> "buf_copy"
             [] pc = "L48_print" -> "buf_moved")
  /\ pc' = CASE pc = "L38" -> "L38_endl"
             [] pc = "L46_print" -> "L46_endl"
             [] pc = "L47_print" -> "L47_endl"
             [] pc = "L48_print" -> "L48_endl"
  /\ UNCHANGED counter

\* << std::endl
Main_endl ==
  /\ pc \in {"L38_endl", "L46_endl", "L47_endl", "L48_endl"}
  /\ stream' = [stream EXCEPT !.out = @ \o <<"\n">>]
  /\ pc' = CASE pc = "L38_endl" -> "L40"
             [] pc = "L46_endl" -> "L47"
             [] pc = "L47_endl" -> "L48"
             [] pc = "L48_endl" -> "L49"
  /\ UNCHANGED <<heap, bufs, curs, last, counter>>

\* xu::shared_buf buf_copy = buf;
Main_copy ==
  /\ pc = "L40"
  /\ shared_buf_copy("buf_copy", "buf")
  /\ pc' = "L42"
  /\ UNCHANGED counter

\* buf_copy[2] = 0;
Main_set ==
  /\ pc = "L42"
  /\ operator_index_write("buf_copy", MainIndex, MainValue)
  /\ pc' = "L44"
  /\ UNCHANGED counter

\* xu::shared_buf buf_moved = std::move(buf_copy);
Main_move ==
  /\ pc = "L44"
  /\ shared_buf_move("buf_moved", "buf_copy")
  /\ pc' = "L46"
  /\ UNCHANGED counter

\* the closing brace: buf_moved, buf_copy and buf are destroyed in this order
Main_return ==
  /\ pc \in {"L49", "L49_copy", "L49_buf"}
  /\ shared_buf_dtor(CASE pc = "L49" -> "buf_moved"
                       [] pc = "L49_copy" -> "buf_copy"
                       [] pc = "L49_buf" -> "buf")
  /\ pc' = CASE pc = "L49" -> "L49_copy"
             [] pc = "L49_copy" -> "L49_buf"
             [] pc = "L49_buf" -> "done"
  /\ UNCHANGED counter

NextMain ==
  \/ Main_construct
  \/ Main_begin
  \/ Main_end
  \/ Main_test
  \/ Main_fill
  \/ Main_inc
  \/ Main_prefix
  \/ Main_print
  \/ Main_endl
  \/ Main_copy
  \/ Main_set
  \/ Main_move
  \/ Main_return

SpecMain == InitMain /\ [][NextMain]_vars

\* ------------------------------------------------------------------ claims

\* the live shared_buf objects whose ptr is the array a
Owners(a) == {b \in DOMAIN bufs : bufs[b].alive /\ bufs[b].ptr = a}

LifecycleOps == {"shared_buf", "shared_buf_copy", "shared_buf_move", "shared_buf_dtor"}

\* In every state: no array was deleted twice, a deleted array has no live
\* owner, a live array has one, and its use count is the number of its owners.
C1_Owned ==
  \A a \in Allocs :
    /\ heap[a].frees <= 1
    /\ heap[a].st = "freed" => (heap[a].frees = 1 /\ Owners(a) = {})
    /\ heap[a].st = "live" => (heap[a].frees = 0 /\ Owners(a) # {}
                               /\ heap[a].cnt = Cardinality(Owners(a)))
    /\ heap[a].st = "unused" => Owners(a) = {}

\* A construction, copy construction, move construction or destruction deletes
\* an array only when it is the destruction of the array's only owner, and the
\* destruction of an array's only owner deletes it.
C1_Step ==
  /\ last'.op \in LifecycleOps =>
       \A a \in Allocs :
         heap'[a].frees # heap[a].frees =>
           \E b \in Bufs : /\ shared_buf_dtor(b)
                           /\ Owners(a) = {b}
                           /\ heap'[a].frees = 1
  /\ last'.op = "shared_buf_dtor" =>
       \A b \in Bufs :
         (shared_buf_dtor(b) /\ bufs[b].ptr # NULL) =>
           IF Owners(bufs[b].ptr) = {b}
           THEN /\ heap'[bufs[b].ptr].st = "freed"
                /\ heap'[bufs[b].ptr].frees = 1
           ELSE /\ heap'[bufs[b].ptr].st = "live"
                /\ heap'[bufs[b].ptr].frees = 0
                /\ heap'[bufs[b].ptr].bytes = heap[bufs[b].ptr].bytes

\* C1: over constructions, copy constructions, move constructions and
\* destructions every array is deleted exactly once, by the destruction of its
\* last owner, and never while a live shared_buf owns it.
C1_ReleasedOnceByLastOwner == []C1_Owned /\ [][C1_Step]_vars

\* C1 witness: a destructor has just deleted an array, exactly once, while
\* another array is still owned by a live shared_buf.
C1_Witness ==
  /\ last.op = "shared_buf_dtor"
  /\ \E a \in Allocs : heap[a].st = "freed" /\ heap[a].frees = 1 /\ Owners(a) = {}
  /\ \E a \in Allocs : heap[a].st = "live" /\ Owners(a) # {}

\* C2: after a copy construction or copy assignment of other to b, both have
\* the same ptr and the same sz and no array was made or changed; and a write
\* of v through operator[](i) of one shared_buf is what operator[](i) const
\* returns on every shared_buf with the same ptr and sz (the state a copy
\* leaves), one byte of one array changing.
C2_CopyShares ==
  [][ /\ last'.op \in {"shared_buf_copy", "operator_assign"} =>
           \A b, other \in Bufs :
             (shared_buf_copy(b, other) \/ operator_assign(b, other)) =>
               /\ bufs'[b].ptr = bufs'[other].ptr
               /\ bufs'[b].sz = bufs'[other].sz
               /\ bufs'[other] = bufs[other]
               /\ bufs[other].ptr # NULL =>
                    /\ heap'[bufs[other].ptr].st = "live"
                    /\ heap'[bufs[other].ptr].cnt = Cardinality(Owners(bufs[other].ptr)')
               /\ \A a \in Allocs : heap'[a].st = "live" =>
                    (heap[a].st = "live" /\ heap'[a].bytes = heap[a].bytes)
      /\ last'.op = "operator_index" =>
           \A b \in Bufs, i \in Indices :
             (i < bufs[b].sz /\ \E v \in Bytes : operator_index_write(b, i, v)) =>
               /\ last'.err = "none"
               /\ \A c \in Owners(bufs[b].ptr) :
                    bufs[c].sz = bufs[b].sz =>
                      index_result(c, i)' =
                        Result("operator_index_const", "none", last'.val)
               /\ \A a \in Allocs, k \in 0..MaxSize :
                    (k \in DOMAIN heap[a].bytes /\ (a # bufs[b].ptr \/ k # i)) =>
                      heap'[a].bytes[k] = heap[a].bytes[k]
    ]_vars

\* C2 witness: a write through one of two shared_buf objects with the same ptr
\* has just changed a byte of their array.
C2_Witness ==
  /\ last.op = "operator_index"
  /\ last.err = "none"
  /\ \E a \in Allocs : Cardinality(Owners(a)) = 2 /\ heap[a].len > 0
                       /\ \E k \in DOMAIN heap[a].bytes : heap[a].bytes[k] = last.val

\* C3: after a move construction or move assignment of other to another
\* shared_buf b, other has sz 0 and a null ptr and operator[] throws on it for
\* every index, and b has other's former sz and returns other's former bytes.
C3_MoveEmptiesSource ==
  [][ last'.op \in {"shared_buf_move", "operator_assign_move"} =>
      \A b, other \in Bufs :
        (/\ b # other
         /\ (shared_buf_move(b, other) \/ operator_assign_move(b, other))) =>
          /\ bufs'[other].sz = 0
          /\ bufs'[other].ptr = NULL
          /\ \A i \in Indices : index_result(other, i)'.err = "out_of_range"
          /\ bufs'[b].sz = bufs[other].sz
          /\ \A i \in Indices : index_result(b, i)' = index_result(other, i)
    ]_vars

\* C3 witness: a move has just left one shared_buf empty and another with a
\* non-empty array.
C3_Witness ==
  /\ last.op \in {"shared_buf_move", "operator_assign_move"}
  /\ \E b, other \in Bufs :
       /\ bufs[other].alive /\ bufs[other].sz = 0 /\ bufs[other].ptr = NULL
       /\ bufs[b].alive /\ bufs[b].sz > 0 /\ bufs[b].ptr # NULL

\* C4: every shared_buf either has a ptr to a live array of sz bytes, or has
\* sz 0 and a null ptr.
C4_SizeMatchesStorage ==
  \A b \in DOMAIN bufs :
    bufs[b].alive =>
      \/ /\ bufs[b].ptr # NULL
         /\ heap[bufs[b].ptr].st = "live"
         /\ heap[bufs[b].ptr].len = bufs[b].sz
      \/ /\ bufs[b].sz = 0
         /\ bufs[b].ptr = NULL

\* C5: operator[](i), const or not, throws std::out_of_range exactly when
\* i >= sz, and otherwise reads or writes element i of the live array at ptr.
C5_IndexRange ==
  [][ /\ last'.op = "operator_index_const" =>
           \A b \in Bufs, i \in Indices :
             operator_index_const(b, i) =>
               /\ (last'.err = "out_of_range") <=> (i >= bufs[b].sz)
               /\ (i < bufs[b].sz) =>
                    /\ last'.err = "none"
                    /\ valid_access(bufs[b].ptr, i)
                    /\ last'.val = heap[bufs[b].ptr].bytes[i]
      /\ last'.op = "operator_index" =>
           \A b \in Bufs, i \in Indices, v \in Bytes :
             operator_index_write(b, i, v) =>
               /\ (last'.err = "out_of_range") <=> (i >= bufs[b].sz)
               /\ (i < bufs[b].sz) =>
                    /\ last'.err = "none"
                    /\ valid_access(bufs[b].ptr, i)
                    /\ heap' = [heap EXCEPT ![bufs[b].ptr].bytes[i] = v]
               /\ (i >= bufs[b].sz) => heap' = heap
    ]_vars

\* C5 witness: operator[] has thrown on a shared_buf that holds bytes.
C5_Witness ==
  /\ last.op \in {"operator_index", "operator_index_const"}
  /\ last.err = "out_of_range"
  /\ \E b \in Bufs : bufs[b].alive /\ bufs[b].sz > 0

\* the bytes the range-for of main() leaves: 1..10 at positions 0..9
Filled == [k \in 0..(MainSize - 1) |-> k + 1]
\* the same with position 2 set to 0
FilledAndSet == [Filled EXCEPT ![MainIndex] = MainValue]

\* what operator[](i) const returns on b: its value, NoVal when it throws
ByteAt(b, i) == index_result(b, i).val

\* the text [1h,2h,3h,4h,5h,6h,7h,8h,9h,ah]
FilledText ==
  <<"[", "1", "h", ",", "2", "h", ",", "3", "h", ",", "4", "h", ",", "5",
    "h", ",", "6", "h", ",", "7", "h", ",", "8", "h", ",", "9", "h", ",",
    "a", "h", "]">>
\* the text [1h,2h,0h,4h,5h,6h,7h,8h,9h,ah]
FilledAndSetText ==
  <<"[", "1", "h", ",", "2", "h", ",", "0", "h", ",", "4", "h", ",", "5",
    "h", ",", "6", "h", ",", "7", "h", ",", "8", "h", ",", "9", "h", ",",
    "a", "h", "]">>

\* what main() has written when it reaches its closing brace
MainOutput ==
  FilledText \o <<"\n">>
  \o <<"b", "u", "f", "=">> \o FilledAndSetText \o <<"\n">>
  \o <<"b", "u", "f", "=">> \o <<"[", "]">> \o <<"\n">>
  \o <<"b", "u", "f", "=">> \o FilledAndSetText \o <<"\n">>

\* C6 as stated: at the closing brace of main() buf is as the loop
\* filled it (position 2 holds 3), buf_copy is empty and prints [], and
\* buf_moved holds 0 at position 2 and the filled bytes elsewhere
C6_AsStated ==
  pc = "L49" =>
    /\ bufs["buf"].sz = MainSize
    /\ \A i \in 0..(MainSize - 1) : ByteAt("buf", i) = Filled[i]
    /\ bufs["buf_copy"].sz = 0
    /\ print_result(cout, "buf_copy").out = <<"[", "]">>
    /\ bufs["buf_moved"].sz = MainSize
    /\ \A i \in 0..(MainSize - 1) : ByteAt("buf_moved", i) = FilledAndSet[i]

\* C6 (amended): at the closing brace of main() the moved-from buf_copy is
\* empty and prints [], buf_moved holds 0 at position 2 and the filled bytes
\* elsewhere, and so does buf, which shares its array with buf_moved: position
\* 2 of buf holds 0, not 3.
C6_Scenario ==
  pc = "L49" =>
    /\ counter = MainSize
    /\ bufs["buf"].sz = MainSize
    /\ \A i \in 0..(MainSize - 1) : ByteAt("buf", i) = FilledAndSet[i]
    /\ bufs["buf_copy"].sz = 0
    /\ bufs["buf_copy"].ptr = NULL
    /\ \A i \in 0..(MainSize - 1) : index_result("buf_copy", i).err = "out_of_range"
    /\ print_result(cout, "buf_copy").out = <<"[", "]">>
    /\ bufs["buf_moved"].sz = MainSize
    /\ bufs["buf_moved"].ptr = bufs["buf"].ptr
    /\ \A i \in 0..(MainSize - 1) : ByteAt("buf_moved", i) = FilledAndSet[i]
    /\ stream.out = MainOutput

\* C6 witness: main() is at its closing brace, the loop has run ten times and
\* the three buffers have been printed.
C6_Witness ==
  /\ pc = "L49"
  /\ counter = MainSize
  /\ bufs["buf_moved"].alive
  /\ Len(stream.out) > 0

Min(x, y) == IF x < y THEN x ELSE y

\* C7: an iterator made by begin() and advanced k times by operator++ (pre or
\* post) is at position min(k, sz); it compares equal to end() of its buffer
\* exactly when k >= sz, so a loop from begin() to end() runs sz times and
\* further increments leave it at sz.
C7_AdvanceSaturates ==
  \A c \in Curs :
    (curs[c].live /\ curs[c].adv # NoVal) =>
      /\ curs[c].i = Min(curs[c].adv, curs[c].sz)
      /\ \A b \in Bufs :
           (bufs[b].alive /\ bufs[b].ptr # NULL /\ bufs[b].ptr = curs[c].base_ptr
            /\ bufs[b].sz = curs[c].sz) =>
             (iterator_eq(curs[c], end_of(b)) <=> curs[c].adv >= curs[c].sz)
             /\ (iterator_ne(curs[c], end_of(b)) <=> curs[c].adv < curs[c].sz)

\* C7 witness: an iterator over the largest buffer was incremented once more
\* after it had reached end().
C7_Witness ==
  /\ last.op \in {"operator_inc", "operator_post_inc"}
  /\ \E c \in Curs : /\ curs[c].live
                     /\ curs[c].sz = MaxIterSize
                     /\ curs[c].adv = MaxIterSize + 1
                     /\ curs[c].i = MaxIterSize
                     /\ bufs[1].alive /\ iterator_eq(curs[c], end_of(1))

\* C8: operator+=(n) moves an iterator at position p to min(p + n, sz), the sum
\* taken in unbounded arithmetic: when p + n wraps or exceeds sz the iterator
\* equals end(), and its position never decreases.
C8_BulkAdvanceClamps ==
  [][ last'.op = "operator_plus_assign" =>
      \A c \in Curs, n \in Steps :
        (last'.arg = n /\ operator_plus_assign(c, n)) =>
          /\ curs'[c].i = Min(curs[c].i + n, curs[c].sz)
          /\ curs'[c].i >= curs[c].i
          /\ curs'[c].base_ptr = curs[c].base_ptr
          /\ curs'[c].sz = curs[c].sz
          /\ (curs[c].i + n > curs[c].sz) =>
               iterator_eq(curs'[c], iterator_(curs[c].base_ptr, curs[c].sz, curs[c].sz))
    ]_vars

\* C8 witness: operator+=(SIZE_MAX) on an iterator at position 1 made i + n
\* wrap to 0, and the iterator is at sz.
C8_Witness ==
  /\ last.op = "operator_plus_assign"
  /\ last.arg = SIZE_MAX
  /\ last.val = 0
  /\ \E c \in Curs : curs[c].live /\ curs[c].sz = MaxIterSize /\ curs[c].i = MaxIterSize
  /\ \A c \in Curs : curs[c].live => curs[c].i = curs[c].sz

\* whether the step is a dereference of iterator c: *it read, *it = v, or ptr()
IsDeref(c) ==
  /\ last'.op \in {"operator_deref", "operator_deref_write", "ptr"}
  /\ \/ operator_deref(c)
     \/ iterator_ptr(c)
     \/ \E v \in Bytes : operator_deref_write(c, v)

\* C9 as stated: in every iterator state a dereference returns element
\* i of the iterator's array exactly when i < sz and throws exactly when i = sz
C9_AsStated ==
  [][ \A c \in Curs :
        IsDeref(c) =>
          /\ (last'.err = "none" /\ valid_access(curs[c].base_ptr, curs[c].i))
               <=> (curs[c].i < curs[c].sz)
          /\ (last'.err = "out_of_range") <=> (curs[c].i = curs[c].sz)
    ]_vars

\* C9 (amended): a dereference throws std::out_of_range exactly when i = sz;
\* when i < sz it accesses base_ptr[i], which is element i of the iterator's
\* array as long as that array has not been deleted; nothing else changes.
C9_DerefRange ==
  [][ \A c \in Curs :
        IsDeref(c) =>
          /\ (last'.err = "out_of_range") <=> (curs[c].i = curs[c].sz)
          /\ (last'.err # "out_of_range") <=> (curs[c].i < curs[c].sz)
          /\ (curs[c].i < curs[c].sz /\ heap[curs[c].base_ptr].st = "live") =>
               /\ last'.err = "none"
               /\ valid_access(curs[c].base_ptr, curs[c].i)
               /\ last'.op # "operator_deref_write" =>
                    last'.val = heap[curs[c].base_ptr].bytes[curs[c].i]
               /\ last'.op = "operator_deref_write" =>
                    heap' = [heap EXCEPT ![curs[c].base_ptr].bytes[curs[c].i] = last'.val]
          /\ last'.op # "operator_deref_write" => heap' = heap
          /\ last'.err # "none" => heap' = heap
          /\ curs' = curs
    ]_vars

\* C9 witness: a dereference has thrown on an iterator at the end of a
\* non-empty live array, while another iterator is inside the array.
C9_Witness ==
  /\ last.op \in {"operator_deref", "ptr"}
  /\ last.err = "out_of_range"
  /\ heap[1].st = "live"
  /\ \E c, d \in Curs : /\ curs[c].live /\ curs[c].sz > 0 /\ curs[c].i = curs[c].sz
                        /\ curs[d].live /\ curs[d].i < curs[d].sz

\* C10: a - other is a.i - other.i when other.i <= a.i and 0 otherwise: never
\* negative, never wrapped to a large size_t, and neither iterator changes.
C10_DistanceSaturates ==
  [][ last'.op = "operator_minus" =>
      \A c, other \in Curs :
        operator_minus(c, other) =>
          /\ last'.val = (IF curs[other].i <= curs[c].i
                          THEN curs[c].i - curs[other].i ELSE 0)
          /\ last'.val >= 0
          /\ last'.val <= curs[c].i
          /\ (curs[c].i <= curs[other].i) => last'.val = 0
          /\ curs' = curs
    ]_vars

\* C10 witness: operator- has returned 0 with other at the end of the largest
\* buffer and an iterator at its start.
C10_Witness ==
  /\ last.op = "operator_minus"
  /\ last.val = 0
  /\ last.arg = MaxIterSize
  /\ \E c, other \in Curs : /\ c # other
                            /\ curs[c].live /\ curs[c].i = 0
                            /\ curs[other].live /\ curs[other].i = MaxIterSize

\* whether two iterators have the same base_ptr, the same sz and the same i
SameMembers(x, y) == x.base_ptr = y.base_ptr /\ x.sz = y.sz /\ x.i = y.i

\* In every state, for every two iterators: operator== is true exactly when
\* base_ptr, sz and i are the same, and operator!= is its negation; and the
\* iterators that two live buffers with the same array and size give for the
\* same position are equal.
C11_Pairs ==
  /\ \A c, d \in DOMAIN curs :
       (curs[c].live /\ curs[d].live) =>
         /\ iterator_eq(curs[c], curs[d]) <=> SameMembers(curs[c], curs[d])
         /\ iterator_ne(curs[c], curs[d]) <=> ~iterator_eq(curs[c], curs[d])
  /\ \A b1, b2 \in DOMAIN bufs :
       (/\ bufs[b1].alive /\ bufs[b2].alive
        /\ bufs[b1].ptr # NULL /\ bufs[b1].ptr = bufs[b2].ptr
        /\ bufs[b1].sz = bufs[b2].sz) =>
         \A k \in 0..bufs[b1].sz :
           /\ iterator_eq(iterator_(bufs[b1].ptr, bufs[b1].sz, k),
                          iterator_(bufs[b2].ptr, bufs[b2].sz, k))
           /\ ~iterator_ne(iterator_(bufs[b1].ptr, bufs[b1].sz, k),
                           iterator_(bufs[b2].ptr, bufs[b2].sz, k))

\* a call of operator== returns true exactly when the members are the same, a
\* call of operator!= exactly when they are not, and neither changes anything
C11_Step ==
  /\ last'.op = "operator_eq" =>
       \A c, d \in CurPair :
         operator_eq(c, d) =>
           /\ (last'.val = 1) <=> SameMembers(curs[c], curs[d])
           /\ (last'.val = 0) <=> ~SameMembers(curs[c], curs[d])
           /\ curs' = curs /\ heap' = heap /\ bufs' = bufs
  /\ last'.op = "operator_ne" =>
       \A c, d \in CurPair :
         operator_ne(c, d) =>
           /\ (last'.val = 1) <=> ~SameMembers(curs[c], curs[d])
           /\ (last'.val = 0) <=> SameMembers(curs[c], curs[d])
           /\ curs' = curs /\ heap' = heap /\ bufs' = bufs

C16_Clamped ==
  /\ \A c \in DOMAIN curs :
       curs[c].live => (0 <= curs[c].i /\ curs[c].i <= curs[c].sz)
  /\ \A p \in CurBases, n \in 0..MaxIterSize, i \in CurIndices :
       /\ iterator_(p, n, i).i = Min(i, n)
       /\ iterator_(p, n, i).sz = n
       /\ iterator_(p, n, i).base_ptr = p

\* operator++ (pre or post) and operator+= never decrease i of the iterator
\* they advance and leave its base_ptr and sz alone; a copy and a const
\* conversion keep base_ptr, sz and i.
C16_Step ==
  /\ last'.op = "operator_inc" =>
       \A c \in CurPair : operator_inc(c) =>
         /\ curs'[c].i >= curs[c].i
         /\ curs'[c].sz = curs[c].sz /\ curs'[c].base_ptr = curs[c].base_ptr
  /\ last'.op = "operator_post_inc" =>
       \A c, d \in CurPair : operator_post_inc(c, d) =>
         /\ curs'[c].i >= curs[c].i
         /\ curs'[c].sz = curs[c].sz /\ curs'[c].base_ptr = curs[c].base_ptr
         /\ curs'[d].i <= curs[c].sz
  /\ last'.op = "operator_plus_assign" =>
       \A c \in CurPair, n \in Steps : (last'.arg = n /\ operator_plus_assign(c, n)) =>
         /\ curs'[c].i >= curs[c].i
         /\ curs'[c].sz = curs[c].sz /\ curs'[c].base_ptr = curs[c].base_ptr
  /\ last'.op \in {"iterator_copy", "operator_const_iterator"} =>
       \A c, other \in CurPair :
         (iterator_copy(c, other) \/ iterator_const_convert(c, other)) =>
           SameMembers(curs'[c], curs[other])

\* C16: every iterator, made by begin(), end(), the constructor with any
\* initial index, a copy or the const conversion, and after any sequence of
\* operator++ and operator+=, has 0 <= i <= sz, and no operator++ or
\* operator+= decreases i.
C16_PositionInRange == []C16_Clamped /\ [][C16_Step]_vars

\* C16 witness: the constructor was called with an index larger than sz_ and
\* left the iterator at sz_ of a non-empty range.
C16_Witness ==
  /\ last.op = "iterator_"
  /\ \E c \in CurPair : curs[c].live /\ curs[c].sz = MaxIterSize
                        /\ curs[c].i = MaxIterSize /\ curs[c].adv = NoVal
  /\ \E c \in CurPair : curs[c].live /\ curs[c].i < curs[c].sz

\* a buffer that was moved from: live, with a null ptr
MovedFrom(b) == bufs[b].alive /\ bufs[b].ptr = NULL

\* In every state a moved-from buffer has size 0, operator[] throws on it for
\* every index, and it prints as [].
C12_EmptyObservations ==
  \A b \in DOMAIN bufs :
    MovedFrom(b) =>
      /\ bufs[b].sz = 0
      /\ \A i \in ViewIndices : index_result(b, i).err = "out_of_range"
      /\ print_result(cout, b).out = <<"[", "]">>

\* A moved-from buffer can be destroyed without any array being deleted, and
\* after a copy or move assignment from another buffer it has that buffer's
\* former size and bytes.
C12_Reusable ==
  /\ last'.op = "shared_buf_dtor" =>
       \A b \in Bufs : (MovedFrom(b) /\ shared_buf_dtor(b)) => heap' = heap
  /\ last'.op \in {"operator_assign", "operator_assign_move"} =>
       \A b, other \in Bufs :
         (/\ MovedFrom(b) /\ b # other
          /\ (operator_assign(b, other) \/ operator_assign_move(b, other))) =>
           /\ bufs'[b].sz = bufs[other].sz
           /\ bufs'[b].ptr = bufs[other].ptr
           /\ \A i \in ViewIndices : index_result(b, i)'.val = index_result(other, i).val

\* begin() and end() of a moved-from buffer return, and return equal
\* iterators, so that a loop from begin() to end() visits no element.
C12_EmptyIteration ==
  last'.op \in {"begin", "end"} =>
    \A b \in Bufs :
      (MovedFrom(b) /\ (begin(ViewCur, b) \/ end(ViewCur, b))) =>
        /\ last'.err = "none"
        /\ iterator_eq(curs'[ViewCur], end_of(b))
        /\ iterator_eq(curs'[ViewCur], iterator_(bufs[b].ptr, bufs[b].sz, 0))

\* C12: a moved-from buffer behaves like a freshly constructed zero-size
\* buffer: size 0, operator[] throws for every index, begin() equals end(), it
\* prints as [], and it can be destroyed or assigned to.
C12_MovedFromIsEmpty ==
  []C12_EmptyObservations /\ [][C12_Reusable /\ C12_EmptyIteration]_vars

\* the part of C12 that does not call begin() or end()
C12_WithoutIteration == []C12_EmptyObservations /\ [][C12_Reusable]_vars

AccessOps == {"operator_index", "operator_index_const",
              "operator_deref", "operator_deref_write"}

\* C13: an operator[] call or a dereference that throws std::out_of_range
\* (i >= sz, see C5; i = sz, see C9) changes nothing: every shared_buf (ptr,
\* sz), every array (its bytes and its use count), every iterator and the
\* stream are as before, so that every later access returns what it would have
\* returned without the failed call.
C13_FailedAccessChangesNothing ==
  [][ (last'.op \in AccessOps /\ last'.err = "out_of_range") =>
        /\ \/ \E b \in Bufs, i \in ViewIndices :
                /\ i >= bufs[b].sz
                /\ \/ operator_index_const(b, i)
                   \/ \E v \in Bytes : operator_index_write(b, i, v)
           \/ /\ curs[ViewCur].i = curs[ViewCur].sz
              /\ \/ operator_deref(ViewCur)
                 \/ \E v \in Bytes : operator_deref_write(ViewCur, v)
        /\ heap' = heap
        /\ bufs' = bufs
        /\ curs' = curs
        /\ stream' = stream
        /\ \A b \in Bufs, i \in ViewIndices :
             index_result(b, i)' = index_result(b, i)
        /\ deref_result(curs[ViewCur], "operator_deref")'
             = deref_result(curs[ViewCur], "operator_deref")
    ]_vars

\* C13 witness: buf[i] = v has thrown with i past the size of a non-empty
\* buffer that shares its array with another, and an iterator is inside the
\* array.
C13_Witness ==
  /\ last.op = "operator_index"
  /\ last.err = "out_of_range"
  /\ \E a \in Allocs : heap[a].st = "live" /\ heap[a].len = MaxIterSize /\ heap[a].cnt = 2
  /\ curs[ViewCur].live /\ curs[ViewCur].base_ptr # NULL
  /\ curs[ViewCur].i < curs[ViewCur].sz

\* the calls that make, copy, convert, advance, read through or destroy an
\* iterator
IteratorOps == {"begin", "end", "iterator_copy", "operator_const_iterator",
                "operator_inc", "operator_post_inc", "operator_plus_assign",
                "operator_deref", "iterator_dtor"}

\* the live iterators over the array a
Views(a) == {c \in DOMAIN curs : curs[c].live /\ curs[c].base_ptr = a}

\* An iterator call changes no use count, no array and no shared_buf; the
\* destruction of the last owner deletes the array whether or not iterators
\* over it are live, and leaves those iterators as they are.
C17_Step ==
  /\ last'.op \in IteratorOps =>
       /\ bufs' = bufs
       /\ \A a \in Allocs : heap'[a] = heap[a]
  /\ last'.op = "shared_buf_dtor" =>
       /\ curs' = curs
       /\ \A b \in Bufs :
            (shared_buf_dtor(b) /\ bufs[b].ptr # NULL) =>
              /\ heap[bufs[b].ptr].cnt = Cardinality(Owners(bufs[b].ptr))
              /\ Owners(bufs[b].ptr) = {b} => heap'[bufs[b].ptr].st = "freed"

\* In every state the use count of a live array is the number of shared_buf
\* objects that hold it, however many iterators view it; and an iterator with
\* i < sz over a deleted array does not throw when dereferenced: it reads
\* deleted storage.
C17_Counts ==
  /\ \A a \in Allocs :
       heap[a].st = "live" => heap[a].cnt = Cardinality(Owners(a))
  /\ \A c \in DOMAIN curs :
       (/\ curs[c].live /\ curs[c].base_ptr # NULL
        /\ heap[curs[c].base_ptr].st = "freed"
        /\ curs[c].i < curs[c].sz) =>
         deref_result(curs[c], "operator_deref").err = "undefined"

\* C17: an iterator owns nothing: making, copying, converting, advancing or
\* destroying iterators never changes the number of owners of an array, the
\* array is deleted when its last shared_buf is destroyed even if iterators
\* over it exist, and such an iterator with i < sz then dereferences deleted
\* storage.
C17_IteratorsOwnNothing == []C17_Counts /\ [][C17_Step]_vars

\* C17 witness: a dereference has read deleted storage: both buffers are
\* destroyed, the array is deleted, and an iterator inside it is still live.
C17_Witness ==
  /\ last.op = "operator_deref"
  /\ last.err = "undefined"
  /\ heap[1].st = "freed"
  /\ \A b \in DOMAIN bufs : ~bufs[b].alive
  /\ \E c \in CurPair : curs[c].live /\ curs[c].base_ptr = 1 /\ curs[c].i < curs[c].sz

\* the calls that copy, move, assign or destroy a shared_buf
BufferOps == {"shared_buf_copy", "shared_buf_move", "operator_assign",
              "operator_assign_move", "shared_buf_dtor"}

\* C18: an iterator keeps the base_ptr and sz it was made with: no copy,
\* move, assignment or destruction of a shared_buf changes base_ptr, sz or i
\* of an iterator; and after other was moved into a different shared_buf b, an
\* iterator made from other before the move still has other's former sz,
\* advances as before, and dereferences the same bytes at every position,
\* which b now owns, although other.size() is 0.
C18_SnapshotKept ==
  [][ last'.op \in BufferOps =>
        /\ curs' = curs
        /\ incremented(curs[ViewCur])' = incremented(curs[ViewCur])
        /\ last'.op \in {"shared_buf_move", "operator_assign_move"} =>
             \A b, other \in Bufs :
               (/\ b # other
                /\ shared_buf_move(b, other) \/ operator_assign_move(b, other)
                /\ curs[ViewCur].live
                /\ bufs[other].ptr # NULL
                /\ curs[ViewCur].base_ptr = bufs[other].ptr
                /\ curs[ViewCur].sz = bufs[other].sz) =>
                 /\ bufs'[other].sz = 0
                 /\ bufs'[b].ptr = curs'[ViewCur].base_ptr
                 /\ bufs'[b].sz = curs'[ViewCur].sz
                 /\ \A k \in 0..(curs[ViewCur].sz - 1) :
                      /\ valid_access(curs[ViewCur].base_ptr, k)'
                      /\ heap'[curs[ViewCur].base_ptr].bytes[k]
                           = heap[curs[ViewCur].base_ptr].bytes[k]
                      /\ deref_result([curs[ViewCur] EXCEPT !.i = k], "operator_deref")'
                           = Result("operator_deref", "none",
                                    heap[curs[ViewCur].base_ptr].bytes[k])
    ]_vars

\* C18 witness: buffer 1 has just been moved into the new buffer 2 while an
\* iterator made from buffer 1 and advanced once is inside the largest array.
C18_Witness ==
  /\ last.op = "shared_buf_move"
  /\ curs[ViewCur].live /\ curs[ViewCur].sz = MaxIterSize
  /\ curs[ViewCur].adv = 1 /\ curs[ViewCur].i = 1
  /\ bufs[1].alive /\ bufs[1].sz = 0 /\ bufs[1].ptr = NULL
  /\ bufs[2].alive /\ bufs[2].ptr = curs[ViewCur].base_ptr /\ bufs[2].sz = MaxIterSize

\* the lowercase hexadecimal digits of a byte, without leading zeros
LowerHex(n) ==
  LET d == <<"0", "1", "2", "3", "4", "5", "6", "7", "8", "9",
             "a", "b", "c", "d", "e", "f">>
  IN IF n < 16 THEN <<d[n + 1]>> ELSE <<d[(n \div 16) + 1], d[(n % 16) + 1]>>

\* b0h,b1h,...: the elements from position i on, separated by commas
RECURSIVE ElementsText(_, _, _)
ElementsText(bytes, sz, i) ==
  IF i >= sz THEN <<>>
  ELSE (IF i # 0 THEN <<",">> ELSE <<>>) \o LowerHex(bytes[i]) \o <<"h">>
       \o ElementsText(bytes, sz, i + 1)

\* [b0h,b1h,...,bN-1h]
FormatText(bytes, sz) == <<"[">> \o ElementsText(bytes, sz, 0) \o <<"]">>

\* C14: whatever format flags the stream has (base, uppercase, showbase,
\* showpos, adjustment), print writes '[', then the bytes in index order, each
\* as its lowercase hexadecimal value without leading zeros or prefix followed
\* by 'h', separated by single commas, then ']'; a buffer of size 0 writes [].
\* The stream's field width is 0 when print is called (a width would pad the
\* '[').
C14_FormatText ==
  [][ last'.op = "print" =>
        \A b \in Bufs :
          (print(b) /\ stream.width = 0) =>
            /\ stream'.out = stream.out \o FormatText(heap[bufs[b].ptr].bytes, bufs[b].sz)
            /\ bufs[b].sz = 0 => stream'.out = stream.out \o <<"[", "]">>
    ]_vars

\* C14 witness: a buffer holding 255 and 10 was printed as [ffh,ah] to a
\* stream with uppercase and showbase set.
C14_Witness ==
  /\ last.op = "print"
  /\ {"uppercase", "showbase", "dec"} \subseteq stream.flags
  /\ stream.out = <<"[", "f", "f", "h", ",", "a", "h", "]">>

\* C15 as stated: print leaves the stream's flags, width and fill as they
\* were, and changes no shared_buf and no array
C15_AsStated ==
  [][ last'.op = "print" =>
        /\ stream'.flags = stream.flags
        /\ stream'.width = stream.width
        /\ stream'.fill = stream.fill
        /\ bufs' = bufs
        /\ heap' = heap
    ]_vars

\* C15 (amended): print leaves the stream's format flags and fill as they
\* were and leaves the field width at 0, whatever it was: a width set before
\* the call is used up by the '[' that print writes first. It changes no
\* shared_buf and no array.
C15_FormatState ==
  [][ last'.op = "print" =>
        /\ stream'.flags = stream.flags
        /\ stream'.fill = stream.fill
        /\ stream'.width = 0
        /\ stream.width = 0 => stream'.width = stream.width
        /\ \A b \in Bufs :
             (print(b) /\ stream.width > 0) =>
               Len(stream'.out) - Len(stream.out)
                 = Len(FormatText(heap[bufs[b].ptr].bytes, bufs[b].sz)) + stream.width - 1
        /\ bufs' = bufs
        /\ heap' = heap
    ]_vars

\* C15 witness: print was called on a stream with hex, uppercase and fill '*'
\* set and a width of PrintWidth: the '[' was padded with '*', the flags are
\* as they were and the width is 0.
C15_Witness ==
  /\ last.op = "print"
  /\ stream.flags = {"hex", "uppercase"}
  /\ stream.fill = "*"
  /\ stream.width = 0
  /\ Len(stream.out) >= PrintWidth
  /\ stream.out[1] = "*"
  /\ stream.out[PrintWidth] = "["

\* the outcome of the mutable operator[](i): the byte, or std::out_of_range
MutableOutcome(i) ==
  IF i < bufs[RevBuf].sz
  THEN [err |-> "none", val |-> heap[bufs[RevBuf].ptr].bytes[i]]
  ELSE [err |-> "out_of_range", val |-> NoVal]

\* a call of operator[] const has ended with the outcome of the mutable
\* operator[] for the same index
ConstIndexReturned ==
  IF last.op = "operator_index_const" /\ last.err \in {"none", "out_of_range"}
  THEN counter = 0 /\ [err |-> last.err, val |-> last.val] = MutableOutcome(last.arg)
  ELSE FALSE

\* C19: in every revision a call of operator[](i) const ends, with the value
\* of byte i when i < sz and with std::out_of_range when i >= sz, as the
\* mutable operator[](i) does.
C19_ConstIndexTerminates == InConstIndex ~> ConstIndexReturned

\* the same for include/shared_buf.hpp alone
C19_CurrentRevisionTerminates ==
  (InConstIndex /\ pc = "shared_buf.hpp") ~> ConstIndexReturned

AssignOps == {"operator_assign", "operator_assign_move"}

\* what an assignment of other to b, two different shared_buf objects, does
\* to the array b held: deleted at this step when b was its only owner, and
\* otherwise live, never deleted, its bytes as they were and its use count the
\* number of its remaining owners; b holds what other held
C20_Step ==
  last'.op \in AssignOps =>
    \A b \in Bufs, other \in Bufs :
      (/\ b # other
       /\ operator_assign(b, other) \/ operator_assign_move(b, other)
       /\ bufs[b].ptr # NULL) =>
        \A old \in {bufs[b].ptr} :
           /\ bufs'[b].ptr = bufs[other].ptr
           /\ IF Owners(old) = {b}
              THEN /\ heap'[old].st = "freed"
                   /\ heap'[old].frees = 1
                   /\ Owners(old)' = {}
              ELSE /\ heap'[old].st = "live"
                   /\ heap'[old].frees = 0
                   /\ heap'[old].bytes = heap[old].bytes
                   /\ Owners(old)' # {}
                   /\ heap'[old].cnt = Cardinality(Owners(old)')
                   /\ bufs[other].ptr # old => Owners(old)' = Owners(old) \ {b}
           /\ \A a \in Allocs \ {old} :
                heap'[a].st = heap[a].st /\ heap'[a].bytes = heap[a].bytes

\* C20: a copy assignment or move assignment of another shared_buf to t drops
\* the array t held at that step: t's array is deleted by the assignment when
\* t was its only owner, and stays live with its bytes unchanged when another
\* shared_buf still owns it.
C20_AssignDropsOld == [][C20_Step]_vars

\* C20 witness: an assignment has just deleted the array its target alone
\* owned, and the target now shares the live array of the other shared_buf.
C20_Witness ==
  /\ last.op \in AssignOps
  /\ \E a \in Allocs : heap[a].st = "freed" /\ heap[a].frees = 1 /\ Owners(a) = {}
  /\ \E a \in Allocs, b \in Bufs : heap[a].st = "live" /\ b \in Owners(a)

\* C21: for an iterator c at a position p in 0..sz and every n, d += n on a
\* copy d of c leaves d with the base_ptr, sz and i that c has after n calls
\* of operator++, and d - c is min(n, sz - p).
C21_BulkIsRepeatedAdvance ==
  /\ (pc.at = "measured" /\ last.op = "operator_minus") =>
       /\ curs[BulkC].i <= curs[BulkC].sz
       /\ last.val = Min(pc.n, curs[BulkC].sz - curs[BulkC].i)
  /\ (pc.at = "measured" /\ counter = pc.n) =>
       SameMembers(curs[BulkD], curs[BulkC])

\* C21 witness: n = SIZE_MAX calls of ++c are done on a buffer that has
\* elements, after d += SIZE_MAX on the copy: i + n wrapped for every start
\* but 0, and both iterators are at sz.
C21_Witness ==
  /\ pc.at = "measured"
  /\ pc.n = SIZE_MAX
  /\ counter = pc.n
  /\ last.op = "operator_inc"
  /\ curs[BulkC].sz >= 1
  /\ curs[BulkC].i = curs[BulkC].sz
  /\ curs[BulkD].i = curs[BulkD].sz

\* C21 witness of the distance: d - c was taken after a d += n that stopped
\* at sz short of n
C21_WitnessDistance ==
  /\ pc.at = "measured"
  /\ last.op = "operator_minus"
  /\ curs[BulkC].i >= 1
  /\ curs[BulkC].i < curs[BulkC].sz
  /\ pc.n > curs[BulkC].sz - curs[BulkC].i
  /\ last.val = curs[BulkC].sz - curs[BulkC].i

====
